---- MODULE Spec2Model ----
(***************************************************************************)
(* Model of src/utils/maybe_done.rs: MaybeDone<Fut>, a three-variant slot  *)
(* (Future / Done / Gone) around one future, with its operations new,      *)
(* output, take and Future::poll.  The wrapped future Fut is generic; it   *)
(* is modelled as a step machine that suspends, finishes with a value, or  *)
(* panics.  One owner calls the operations one at a time (&mut self).      *)
(***************************************************************************)
EXTENDS Integers, Sequences, FiniteSets, TLC

\* ---- bounds ----
MaxSteps == 3
MaxOps == 7

\* values a wrapped future may produce, and the wakers/contexts a caller passes
Values == {42, 120}
Contexts == {1, 2}

VARIABLES
  this,         \* the MaybeDone value (the enum at lines 10-20)
  fut0,         \* the future that was handed to new()
  op,           \* the last call made on the slot: its name and its cx
  pre,          \* the slot as it was when the last call started
  ret,          \* what the last call returned (or the panic it raised)
  nops,         \* number of calls made so far
  polls,        \* number of MaybeDone::poll calls made so far
  inner_polls,  \* number of times Fut::poll has been invoked
  completions,  \* number of Future -> Done changes of the slot
  produced,     \* <<v>> once Fut::poll has returned Ready(v), else <<>>
  taken,        \* number of take calls that returned Some
  take_called,  \* TRUE once take has been called at all
  extractions,  \* number of Done -> Gone changes of the slot
  future_polls, \* number of poll calls that found the slot in Future
  last_cx,      \* the context Fut::poll was last invoked with (0: never)
  scen          \* calls of Scenario matched so far (-1: the calls left it)

vars == <<this, fut0, op, pre, ret, nops, polls, inner_polls, completions,
          produced, taken, take_called, extractions, future_polls, last_cx,
          scen>>

\* ---- the enum MaybeDone<Fut> (lines 10-20) ----
Future(f) == [tag |-> "Future", fut |-> <<f>>, out |-> <<>>]
Done(v) == [tag |-> "Done", fut |-> <<>>, out |-> <<v>>]
Gone == [tag |-> "Gone", fut |-> <<>>, out |-> <<>>]

\* ---- return values ----
None == [res |-> "None", val |-> <<>>, msg |-> ""]
Some(v) == [res |-> "Some", val |-> <<v>>, msg |-> ""]
PollPending == [res |-> "Pending", val |-> <<>>, msg |-> ""]
PollReady == [res |-> "Ready", val |-> <<>>, msg |-> ""]
Panic(m) == [res |-> "panic", val |-> <<>>, msg |-> m]

PolledAfterTaken == "MaybeDone polled after value taken"
Unreachable == "internal error: entered unreachable code"
InnerPanic == "panic raised by the wrapped future"
ResumedAfterEnd == "wrapped future polled after it ended"

\* ---- the wrapped future (Fut: Future) ----
\* need: the poll on which it returns Ready; val: its output; failAt: the poll
\* on which it panics (0: never); steps: polls performed; cx: last context seen;
\* ended: it has returned Ready or panicked.
Futures ==
  { [need |-> n, val |-> v, failAt |-> f, steps |-> 0, cx |-> 0, ended |-> FALSE] :
      n \in 1..MaxSteps, v \in Values, f \in 0..MaxSteps }

FinishesAt(f) == IF f.failAt = 0 \/ f.failAt > f.need THEN f.need ELSE 0

\* Fut::poll(cx) as invoked at line 66
PollFut(a, cx) ==
  LET b == [a EXCEPT !.steps = a.steps + 1, !.cx = cx] IN
  IF a.ended
    THEN [res |-> "panic", val |-> 0, msg |-> ResumedAfterEnd, fut |-> b]
  ELSE IF b.steps = a.failAt
    THEN [res |-> "panic", val |-> 0, msg |-> InnerPanic,
          fut |-> [b EXCEPT !.ended = TRUE]]
  ELSE IF b.steps >= a.need
    THEN [res |-> "Ready", val |-> a.val, msg |-> "",
          fut |-> [b EXCEPT !.ended = TRUE]]
  ELSE [res |-> "Pending", val |-> 0, msg |-> "", fut |-> b]

\* ---- MaybeDone::new (lines 24-26) ----
new_done(future) == Done(future.val)

new(future) == Future(future)

\* ---- MaybeDone::output (lines 33-39) ----
output_swapped(self) ==
  IF self.tag = "Done" THEN None
  ELSE IF self.tag = "Future" THEN Some(self.fut[1].val)
  ELSE None

output(self) ==
  IF self.tag = "Done" THEN Some(self.out[1]) ELSE None

\* ---- MaybeDone::take (lines 44-57) ----
\* the first match (lines 47-50): FALSE is the early `return None`
take_unguarded(self) == TRUE

take_isDone(self) == self.tag = "Done"

\* mem::replace(dest, src) (line 51): stores src, hands back the old value
mem_replace_noStore(dest, src) == [old |-> dest, new |-> dest]

mem_replace(dest, src) == [old |-> dest, new |-> src]

take(self) ==
  IF ~take_isDone(self)
    THEN [this |-> self, ret |-> None]
    ELSE LET r == mem_replace(self, Gone) IN
         IF r.old.tag = "Done"
           THEN [this |-> r.new, ret |-> Some(r.old.out[1])]
           ELSE [this |-> r.new, ret |-> Panic(Unreachable)]

\* ---- <MaybeDone as Future>::poll (lines 63-73) ----
\* Pin::set (line 71): overwrite the slot with the new value
set_keep(self, value) == self

set(self, value) == value

\* arm of line 67
poll_Done_pending(self) ==
  [this |-> self, ret |-> PollPending, inner |-> 0, cx |-> 0, produced |-> <<>>]

poll_Done_clears(self) ==
  [this |-> Gone, ret |-> PollReady, inner |-> 0, cx |-> 0, produced |-> <<>>]

poll_Done(self) ==
  [this |-> self, ret |-> PollReady, inner |-> 0, cx |-> 0, produced |-> <<>>]

\* arm of line 68
poll_Gone_ready(self) ==
  [this |-> self, ret |-> PollReady, inner |-> 0, cx |-> 0, produced |-> <<>>]

poll_Gone(self) ==
  [this |-> self, ret |-> Panic(PolledAfterTaken), inner |-> 0, cx |-> 0, produced |-> <<>>]

\* arm of line 66 with ready!, then lines 71-72
poll_Future_caught(self, cx) ==
  LET r == PollFut(self.fut[1], cx) IN
  CASE r.res = "Pending" ->
         [this |-> Future(r.fut), ret |-> PollPending, inner |-> 1, cx |-> cx,
          produced |-> <<>>]
    [] r.res = "Ready" ->
         [this |-> set(Future(r.fut), Done(r.val)), ret |-> PollReady,
          inner |-> 1, cx |-> cx, produced |-> <<r.val>>]
    [] OTHER ->
         [this |-> Gone, ret |-> PollPending, inner |-> 1, cx |-> cx,
          produced |-> <<>>]

poll_Future_otherCx(self, cx) ==
  LET r == PollFut(self.fut[1], 0) IN
  CASE r.res = "Pending" ->
         [this |-> Future(r.fut), ret |-> PollPending, inner |-> 1, cx |-> 0,
          produced |-> <<>>]
    [] r.res = "Ready" ->
         [this |-> set(Future(r.fut), Done(r.val)), ret |-> PollReady,
          inner |-> 1, cx |-> 0, produced |-> <<r.val>>]
    [] OTHER ->
         [this |-> Future(r.fut), ret |-> Panic(r.msg), inner |-> 1, cx |-> 0,
          produced |-> <<>>]

poll_Future(self, cx) ==
  LET r == PollFut(self.fut[1], cx) IN
  CASE r.res = "Pending" ->
         [this |-> Future(r.fut), ret |-> PollPending, inner |-> 1, cx |-> cx,
          produced |-> <<>>]
    [] r.res = "Ready" ->
         [this |-> set(Future(r.fut), Done(r.val)), ret |-> PollReady,
          inner |-> 1, cx |-> cx, produced |-> <<r.val>>]
    [] OTHER ->
         [this |-> Future(r.fut), ret |-> Panic(r.msg), inner |-> 1, cx |-> cx,
          produced |-> <<>>]

poll(self, cx) ==
  CASE self.tag = "Future" -> poll_Future(self, cx)
    [] self.tag = "Done" -> poll_Done(self)
    [] OTHER -> poll_Gone(self)

\* ---- the call sequence of the first scenario: poll, output, poll, output,
\* take, take, poll on a future that suspends once and then yields 42 ----
Scenario == <<"poll", "output", "poll", "output", "take", "take", "poll">>

ScenarioFuture(f) == f.need = 2 /\ f.val = 42 /\ f.failAt = 0

ScenarioStep(n, name) ==
  IF n >= 0 /\ n < Len(Scenario) /\ Scenario[n + 1] = name THEN n + 1 ELSE -1

\* ---- state machine: one owner calling the operations in any order ----
Init ==
  /\ fut0 \in Futures
  /\ this = new(fut0)
  /\ op = [name |-> "new", cx |-> 0]
  /\ pre = new(fut0)
  /\ ret = [res |-> "new", val |-> <<>>, msg |-> ""]
  /\ nops = 0
  /\ polls = 0
  /\ inner_polls = 0
  /\ completions = 0
  /\ produced = <<>>
  /\ taken = 0
  /\ take_called = FALSE
  /\ extractions = 0
  /\ future_polls = 0
  /\ last_cx = 0
  /\ scen = 0

DoPoll ==
  /\ \E cx \in Contexts :
       LET r == poll(this, cx) IN
       /\ this' = r.this
       /\ ret' = r.ret
       /\ op' = [name |-> "poll", cx |-> cx]
       /\ inner_polls' = inner_polls + r.inner
       /\ produced' = IF r.produced # <<>> THEN r.produced ELSE produced
       /\ completions' =
            IF this.tag = "Future" /\ r.this.tag = "Done"
              THEN completions + 1 ELSE completions
       /\ extractions' =
            IF this.tag = "Done" /\ r.this.tag = "Gone"
              THEN extractions + 1 ELSE extractions
       /\ last_cx' = IF r.inner > 0 THEN r.cx ELSE last_cx
  /\ pre' = this
  /\ nops' = nops + 1
  /\ polls' = polls + 1
  /\ future_polls' = IF this.tag = "Future" THEN future_polls + 1 ELSE future_polls
  /\ scen' = ScenarioStep(scen, "poll")
  /\ UNCHANGED <<fut0, taken, take_called>>

\* the owner polls the slot (any state, within the call budget)
CallPoll == nops < MaxOps /\ DoPoll

CallOutput ==
  /\ nops < MaxOps
  /\ ret' = output(this)
  /\ op' = [name |-> "output", cx |-> 0]
  /\ pre' = this
  /\ nops' = nops + 1
  /\ scen' = ScenarioStep(scen, "output")
  /\ UNCHANGED <<this, fut0, polls, inner_polls, completions, produced, taken,
                 take_called, extractions, future_polls, last_cx>>

CallTake ==
  /\ nops < MaxOps
  /\ LET r == take(this) IN
       /\ this' = r.this
       /\ ret' = r.ret
       /\ taken' = IF r.ret.res = "Some" THEN taken + 1 ELSE taken
       /\ extractions' =
            IF this.tag = "Done" /\ r.this.tag = "Gone"
              THEN extractions + 1 ELSE extractions
  /\ op' = [name |-> "take", cx |-> 0]
  /\ pre' = this
  /\ nops' = nops + 1
  /\ take_called' = TRUE
  /\ scen' = ScenarioStep(scen, "take")
  /\ UNCHANGED <<fut0, polls, inner_polls, completions, produced, future_polls,
                 last_cx>>

Next == CallPoll \/ CallOutput \/ CallTake

Spec == Init /\ [][Next]_vars

\* the scheduler re-polls a slot whose future can still make progress; it is
\* not limited by the owner's call budget
SchedulerPoll ==
  /\ this.tag = "Future"
  /\ ~this.fut[1].ended
  /\ DoPoll

NextLive == SchedulerPoll \/ CallPoll \/ CallOutput \/ CallTake

SpecLive == Init /\ [][NextLive]_vars /\ WF_vars(SchedulerPoll)

TypeOK ==
  /\ this.tag \in {"Future", "Done", "Gone"}
  /\ nops \in 0..MaxOps
  /\ polls \in 0..MaxOps
  /\ inner_polls \in 0..MaxOps
  /\ ret.res \in {"new", "None", "Some", "Pending", "Ready", "panic"}

\* ---- helpers for the properties ----
\* the last call was made after Fut::poll had returned Ready
AfterCompletion == produced # <<>> /\ op.name \in {"output", "take"}

\* number of take calls that had returned Some before the last call started
TakenBefore ==
  IF op.name = "take" /\ ret.res = "Some" THEN taken - 1 ELSE taken

\* C1: a future that finishes on its k-th poll, polled from a fresh slot:
\* while fewer than k polls were made the slot is Future, no completion has
\* happened and each poll returned Pending; the k-th poll returns Ready and
\* leaves Done(value); from then on exactly one Future -> Done change exists.
C1_SingleCompletion ==
  FinishesAt(fut0) > 0 =>
    /\ polls < FinishesAt(fut0) =>
         /\ this.tag = "Future"
         /\ completions = 0
         /\ op.name = "poll" => ret = PollPending
    /\ polls = FinishesAt(fut0) /\ op.name = "poll" =>
         /\ ret = PollReady
         /\ this = Done(fut0.val)
         /\ pre.tag = "Future"
    /\ polls >= FinishesAt(fut0) => completions = 1

C1_Witness ==
  /\ FinishesAt(fut0) > 1
  /\ polls = FinishesAt(fut0)
  /\ op.name = "poll"
  /\ ret = PollReady
  /\ this = Done(fut0.val)
  /\ completions = 1

\* C2: a poll that returns normally returns Ready exactly when the slot is Done
\* on return, and no poll changes the slot to Gone.
C2_ReadyIffDone ==
  op.name = "poll" =>
    /\ ret.res \in {"Ready", "Pending"} => (ret.res = "Ready" <=> this.tag = "Done")
    /\ this.tag = "Gone" => pre.tag = "Gone"

C2_Witness ==
  /\ op.name = "poll"
  /\ ret = PollReady
  /\ this.tag = "Done"
  /\ pre.tag = "Done"

\* C3: take hands out the value at most once: a take on a Done slot returns
\* the stored value and leaves Gone; once Gone the slot stays Gone and every
\* take returns None, whatever output calls come in between.
C3_TakeOnce ==
  /\ [](/\ taken <= 1
        /\ op.name = "take" /\ pre.tag = "Done" =>
             ret = Some(pre.out[1]) /\ this = Gone /\ TakenBefore = 0
        /\ op.name = "take" /\ TakenBefore >= 1 => ret = None)
  /\ [][this.tag = "Gone" => this' = Gone]_vars

C3_Witness ==
  /\ op.name = "take"
  /\ pre = Gone
  /\ ret = None
  /\ taken = 1
  /\ this = Gone

\* C4: poll on a Gone slot panics with the slot's own message, does not
\* return Ready or Pending, does not invoke Fut::poll, and leaves Gone.
C4_PollGonePanics ==
  [][this.tag = "Gone" /\ op'.name = "poll" /\ nops' = nops + 1 =>
       /\ ret' = Panic(PolledAfterTaken)
       /\ inner_polls' = inner_polls
       /\ this' = Gone]_vars

C4_Witness ==
  /\ op.name = "poll"
  /\ pre = Gone
  /\ ret = Panic(PolledAfterTaken)
  /\ this = Gone
  /\ polls >= FinishesAt(fut0) + 2

\* C5: poll on a Done slot returns Ready, leaves the slot and its value as
\* they were, and does not invoke Fut::poll.
C5_PollDoneNoop ==
  [][this.tag = "Done" /\ op'.name = "poll" /\ nops' = nops + 1 =>
       /\ ret' = PollReady
       /\ this' = this
       /\ inner_polls' = inner_polls
       /\ completions' = completions]_vars

C5_Witness ==
  /\ op.name = "poll"
  /\ pre.tag = "Done"
  /\ this = pre
  /\ ret = PollReady
  /\ polls >= FinishesAt(fut0) + 2
  /\ FinishesAt(fut0) > 0

\* C6: Fut::poll is invoked only by a poll call on a Future slot, and never
\* again once it has returned Ready.
C6_NoPollAfterReady ==
  [][inner_polls' # inner_polls =>
       /\ this.tag = "Future"
       /\ op'.name = "poll"
       /\ produced = <<>>]_vars

C6_Witness ==
  /\ produced # <<>>
  /\ op.name = "poll"
  /\ pre.tag \in {"Done", "Gone"}
  /\ inner_polls = FinishesAt(fut0)
  /\ polls > inner_polls

\* C7: take on a Future or Gone slot returns None, leaves the slot unchanged
\* and does not invoke Fut::poll.
C7_TakeNotDone ==
  [][this.tag \in {"Future", "Gone"} /\ op'.name = "take" /\ nops' = nops + 1 =>
       /\ ret' = None
       /\ this' = this
       /\ inner_polls' = inner_polls
       /\ taken' = taken]_vars

C7_Witness ==
  /\ op.name = "take"
  /\ pre.tag = "Future"
  /\ pre.fut[1].steps >= 1
  /\ this = pre
  /\ ret = None

\* C8: output returns Some(stored value) on Done and None on Future or Gone,
\* and in every state leaves the slot unchanged and does not invoke Fut::poll.
C8_OutputReadOnly ==
  [][op'.name = "output" /\ nops' = nops + 1 =>
       /\ ret' = IF this.tag = "Done" THEN Some(this.out[1]) ELSE None
       /\ this' = this
       /\ inner_polls' = inner_polls
       /\ taken' = taken]_vars

C8_Witness ==
  /\ op.name = "output"
  /\ pre.tag = "Done"
  /\ this = pre
  /\ ret = Some(this.out[1])
  /\ nops >= polls + 2
  /\ ~take_called

\* C9 as stated: every output or take call made after poll has returned Ready
\* observes the produced value.
C9_Original ==
  AfterCompletion => ret.res = "Some" /\ ret.val = produced

\* C9 amended: after poll has returned Ready, every output or take call made
\* before any take has returned the value observes the produced value, and
\* every output or take call made after that observes None.
C9_ObserveUntilTaken ==
  AfterCompletion =>
    IF TakenBefore = 0
      THEN ret.res = "Some" /\ ret.val = produced
      ELSE ret = None

C9_Witness ==
  /\ AfterCompletion
  /\ op.name = "take"
  /\ pre.tag = "Done"
  /\ ret.res = "Some"
  /\ ret.val = produced
  /\ nops >= polls + 2

C11_OnlyForward ==
  [][this'.tag # this.tag =>
       \/ this.tag = "Future" /\ this'.tag = "Done"
       \/ this.tag = "Done" /\ this'.tag = "Gone"]_vars

C11_Witness ==
  /\ this = Gone
  /\ pre = Gone
  /\ completions = 1
  /\ extractions = 1
  /\ nops >= polls + 2

\* C12: Future -> Done happens at most once and only in a poll call in which
\* Fut::poll returns Ready; Done -> Gone happens at most once and only in a
\* take call; output (and construction) cause neither.
C12_TransitionsOnce ==
  /\ [](completions <= 1 /\ extractions <= 1)
  /\ [][/\ this.tag = "Future" /\ this'.tag = "Done" =>
             /\ op'.name = "poll"
             /\ produced = <<>>
             /\ produced' # <<>>
             /\ inner_polls' = inner_polls + 1
        /\ this.tag = "Done" /\ this'.tag = "Gone" =>
             /\ op'.name = "take"
             /\ ret'.res = "Some"
        /\ op'.name \in {"output", "new"} => this'.tag = this.tag]_vars

C12_Witness ==
  /\ completions = 1
  /\ extractions = 1
  /\ op.name = "poll"
  /\ pre = Gone
  /\ polls >= 3

\* C13: on a future that suspends once and then yields 42, the calls poll,
\* output, poll, output, take, take, poll return Pending, None, Ready,
\* Some(42), Some(42), None and the panic of a poll after take.
ScenarioReturns ==
  <<PollPending, None, PollReady, Some(42), Some(42), None,
    Panic(PolledAfterTaken)>>

C13_Scenario ==
  ScenarioFuture(fut0) /\ scen >= 1 => ret = ScenarioReturns[scen]

C13_Witness ==
  /\ ScenarioFuture(fut0)
  /\ scen = Len(Scenario)
  /\ ret = Panic(PolledAfterTaken)
  /\ this = Gone

\* C14: when Fut::poll panics inside a poll call on a Future slot, poll ends
\* in that same panic and the slot is neither Done nor Gone afterwards.
C14_InnerPanicPropagates ==
  [][/\ this.tag = "Future"
     /\ op'.name = "poll"
     /\ nops' = nops + 1
     /\ PollFut(this.fut[1], op'.cx).res = "panic"
     =>
     /\ ret' = Panic(PollFut(this.fut[1], op'.cx).msg)
     /\ this'.tag = "Future"
     /\ completions' = completions
     /\ produced' = produced]_vars

C14_Witness ==
  /\ op.name = "poll"
  /\ pre.tag = "Future"
  /\ ret = Panic(InnerPanic)
  /\ this.tag = "Future"
  /\ inner_polls = fut0.failAt
  /\ fut0.failAt >= 2

\* C15: a freshly constructed slot is Future around the given future, which
\* has not been polled; a first output or take call returns None and finds
\* the future still not polled.
C15_NewIsPending ==
  /\ nops = 0 =>
       /\ this = Future(fut0)
       /\ this.fut[1].steps = 0
       /\ inner_polls = 0
  /\ nops = 1 /\ op.name \in {"output", "take"} =>
       /\ ret = None
       /\ pre = Future(fut0)
       /\ this = Future(fut0)
       /\ inner_polls = 0

C15_Witness ==
  /\ nops = 1
  /\ op.name = "take"
  /\ ret = None
  /\ this = Future(fut0)
  /\ inner_polls = 0

\* C16: every poll call on a Future slot invokes Fut::poll exactly once, with
\* the context the caller passed; so the number of Fut::poll invocations
\* equals the number of poll calls that found the slot in Future.
C16_OneInnerPollPerPoll ==
  /\ [](inner_polls = future_polls)
  /\ [][this.tag = "Future" /\ op'.name = "poll" /\ nops' = nops + 1 =>
          /\ inner_polls' = inner_polls + 1
          /\ last_cx' = op'.cx
          /\ this'.tag = "Future" =>
               /\ this'.fut[1].steps = this.fut[1].steps + 1
               /\ this'.fut[1].cx = op'.cx]_vars

C16_Witness ==
  /\ op.name = "poll"
  /\ op.cx = 2
  /\ last_cx = 2
  /\ pre.tag = "Future"
  /\ this.tag = "Done"
  /\ inner_polls = 2
  /\ future_polls = 2
  /\ polls = 2

\* C17: a Done slot holds exactly the value Fut::poll returned; every Some
\* returned by output or take carries that value, and take returns Some at
\* most once.
C17_ValueConserved ==
  /\ this.tag = "Done" => this.out = <<fut0.val>> /\ produced = this.out
  /\ ret.res = "Some" => ret.val = <<fut0.val>> /\ ret.val = produced
  /\ produced # <<>> => produced = <<fut0.val>>
  /\ taken <= 1

C17_Witness ==
  /\ op.name = "output"
  /\ ret = Some(fut0.val)
  /\ this = Done(fut0.val)
  /\ pre = this
  /\ fut0.val = 120

\* C18: when the future finishes after finitely many polls and the scheduler
\* keeps polling a slot that can make progress, the slot leaves Future: a
\* poll returns Ready with the slot Done, and from some point on the slot is
\* Done or Gone for good.
C18_EventuallyDone ==
  /\ (FinishesAt(fut0) > 0 /\ this.tag = "Future")
       ~> (completions = 1 /\ op.name = "poll" /\ ret = PollReady /\ this.tag = "Done")
  /\ (FinishesAt(fut0) > 0) ~> [](this.tag \in {"Done", "Gone"})

C18_Witness ==
  /\ FinishesAt(fut0) > 1
  /\ completions = 1
  /\ op.name = "poll"
  /\ pre.tag = "Future"
  /\ ret = PollReady
  /\ this.tag = "Done"
  /\ nops > MaxOps

\* C19: no take call ends in unreachable!(): whenever take has got past its
\* first match, the value swapped out was Done and take returned it.
C19_UnreachableNeverRuns ==
  /\ ret.msg # Unreachable
  /\ op.name = "take" /\ this # pre => pre.tag = "Done" /\ ret = Some(pre.out[1])

C19_Witness ==
  /\ op.name = "take"
  /\ pre.tag = "Done"
  /\ this = Gone
  /\ ret = Some(pre.out[1])
  /\ polls >= 2

====
